---- MODULE Spec2Model ----
(***************************************************************************)
(* PyQtCmd: a model of QCmdLineEdit (the line editor with its recall       *)
(* history) and of QCmdConsole (the three streams, the input accumulation  *)
(* buffer, the prompt label and the scrollback display), as written in     *)
(* src/PyQtCmd/__init__.py.                                                *)
(*                                                                         *)
(* A text is a sequence of characters, each character a one-element        *)
(* string: "x = 1" is <<"x", " ", "=", " ", "1">>, '' is <<>>.             *)
(* An optional value (int | None) is <<>> for None and <<n>> for n.        *)
(***************************************************************************)
EXTENDS Integers, Sequences, FiniteSets, TLC

\* Display-appending events (submits and channel writes) explored in a run;
\* typing and history navigation are not counted.
MaxEvents == 2
\* Largest finite max_history explored.
MaxCapacity == 2
\* max_lines of the explored consoles.
MaxLines == 3
\* Tab key events explored in a run.
MaxTabs == 1

NL == "\n"
None == <<>>
Some(n) == <<n>>

\* prompt_text = '> '
prompt_text == <<">", " ">>
\* line_continuing_prompt_text: U+2026 (written "[U+2026]", one character) and a space
line_continuing_prompt_text == <<"[U+2026]", " ">>
max_lines == MaxLines

\* The lines the user types, the texts the host writes, the interpreter's replies.
IfTrue == <<"i", "f", " ", "T", "r", "u", "e", ":">>
Pass == <<" ", " ", " ", " ", "p", "a", "s", "s">>
Lines == {<<>>, IfTrue, Pass}
InWrites == {<<>>, <<"x">>, <<"x", NL>>, <<NL, "x">>}
OutWrites == {<<"o", NL>>}
InitTexts == {None, Some(<<"h", NL>>)}
Capacities == {Some(n) : n \in 1..MaxCapacity} \cup {None}
ExpandTabs == {None, Some(4)}
\* the texts typed in the sessions that follow the caret
KeyLines == {<<>>, <<"a", "b">>}
\* the Tab key events that reach QCmdLineEdit.event, by their type()
TabEvents == {"KeyPress", "KeyRelease"}
\* the keys that move the caret of the field
CaretKeys == {"Home", "Left"}
\* one write of the interpreter to console.stdout or console.stderr
Write(channel, s) == [channel |-> channel, s |-> s]
\* more: the interpreter returns True or False, or raises; out: the writes it
\* makes to the console's output streams while it runs, in order (a print is
\* two writes to stdout, the text and '\n'; a traceback is one to stderr).
Responses ==
    { [more |-> "True", out |-> <<>>],
      [more |-> "False", out |-> <<>>],
      [more |-> "False", out |-> <<Write("stdout", <<"r">>), Write("stdout", <<NL>>)>>],
      [more |-> "False", out |-> <<Write("stderr", <<"r", NL>>)>>],
      [more |-> "raise", out |-> <<>>] }
NoResponse == [more |-> "False", out |-> <<>>]
\* an interpreter that completes the line and prints nothing
Completes == [more |-> "False", out |-> <<>>]

VARIABLES
    max_history,    \* QCmdLineEdit(max_history=...): Some(n) or None
    expand_tab,     \* QCmdLineEdit(expand_tab=...): Some(n) or None
    history,        \* QCmdLineEdit.history, history[1] is Python's history[0]
    history_index,  \* QCmdLineEdit.history_index (0-based, as in the code)
    text,           \* the QLineEdit's text
    caret,          \* the QLineEdit's cursorPosition(), 0..len(text)
    buffer,         \* QCmdConsole.stdin.buffer.getvalue()
    prompt,         \* QCmdConsole.prompt.text()
    display,        \* the blocks (lines) of QCmdConsole.display
    evicted,        \* observation: the number of blocks that have left the
                    \* display from its start
    trace,          \* the effects of the last handler, in the order they happened
    ev,             \* the last event: its kind, its argument, the state it started in
    segments,       \* the texts written to stdin since the last evaluation that returned False
    last_more,      \* what the most recent interpreter call that returned, returned
    submitted,      \* the non-empty lines whose submit completed, most recent first
    raised,         \* an interpreter call of this session has raised
    error,          \* the exception the last key handler of QCmdLineEdit raised
                    \* in its own code, or "none"
    events,         \* number of display-appending events so far
    tabs,           \* number of Tab key events so far
    draft           \* observation: Some(the text the field held when Up left
                    \* cursor 0), while only Up and Down have followed

vars == <<max_history, expand_tab, history, history_index, text, caret, buffer,
          prompt, display, evicted, trace, ev, segments, last_more, submitted, raised,
          error, events, tabs, draft>>

----------------------------------------------------------------------------
(* Texts *)

\* mutant: "c in s" in place of s.endswith(c)
endswith_contains(s, c) == \E i \in 1..Len(s) : s[i] = c

\* str.endswith(c) for a one-character c
endswith(s, c) == Len(s) > 0 /\ s[Len(s)] = c

RECURSIVE Flatten(_)
Flatten(segs) == IF segs = <<>> THEN <<>> ELSE Head(segs) \o Flatten(Tail(segs))

----------------------------------------------------------------------------
(* collections.deque(maxlen=...) *)

\* mutant: a deque that ignores maxlen
deque_appendleft_unbounded(d, x, maxlen) == <<x>> \o d

\* deque.appendleft(x): a full bounded deque drops its rightmost element
deque_appendleft(d, x, maxlen) ==
    LET n == <<x>> \o d
    IN IF maxlen # None /\ Len(n) > maxlen[1] THEN SubSeq(n, 1, maxlen[1]) ELSE n

\* collections.deque(maxlen=n) raises ValueError for a negative n
deque_rejects(maxlen) == maxlen # None /\ maxlen[1] < 0

\* the deque after QCmdLineEdit.__init__: deque(maxlen=max_history), appendleft('')
new_history(maxlen) == deque_appendleft(<<>>, <<>>, maxlen)

----------------------------------------------------------------------------
(* QPlainTextEdit: the document is a sequence of blocks, at least one *)

insertChar(doc, c) ==
    IF c = NL THEN Append(doc, <<>>)
    ELSE [doc EXCEPT ![Len(doc)] = Append(@, c)]

RECURSIVE insertChars(_, _)
insertChars(doc, s) ==
    IF s = <<>> THEN doc ELSE insertChars(insertChar(doc, Head(s)), Tail(s))

\* mutant: the maximum counts the newline-terminated lines, not the blocks
maximumBlockCount_of_lines(doc) ==
    IF Len(doc) > max_lines + 1
    THEN SubSeq(doc, Len(doc) - max_lines, Len(doc))
    ELSE doc

\* setMaximumBlockCount(max_lines): blocks beyond the maximum leave from the start
maximumBlockCount(doc) ==
    IF Len(doc) > max_lines
    THEN SubSeq(doc, Len(doc) - max_lines + 1, Len(doc))
    ELSE doc

insertPlainText(doc, s) == maximumBlockCount(insertChars(doc, s))

\* the display after QCmdConsole.__init__: empty, then stdout.write(init_text)
new_display(init_text) ==
    IF init_text = None THEN << <<>> >>
    ELSE insertPlainText(<< <<>> >>, init_text[1])

----------------------------------------------------------------------------
(* QCmdConsole.  A console value c is a record of the console's fields and   *)
(* of what the running handler has done so far:                            *)
(*   buffer, prompt, display, trace, segments, last_more,                  *)
(*   ret: "none", or what the interpreter call of this handler did.        *)

\* history, history_index: for a call, the editor's history and cursor as the
\* interpreter would find them
Effect(k, s, fmt, segs) ==
    [k |-> k, s |-> s, fmt |-> fmt, segs |-> segs, history |-> <<>>,
     history_index |-> 0]

Console ==
    [ buffer |-> buffer, prompt |-> prompt, display |-> display,
      evicted |-> evicted, editor_history |-> history,
      editor_index |-> history_index,
      trace |-> <<>>, segments |-> segments, last_more |-> last_more,
      ret |-> "none" ]

\* display.insertPlainText(text): kept is the document after it
_display_text(c, s, fmt) ==
    LET inserted == insertChars(c.display, s)
        kept == maximumBlockCount(inserted)
    IN
    [c EXCEPT !.display = kept,
              !.evicted = @ + Len(inserted) - Len(kept),
              !.trace = Append(@, Effect("display", s, fmt, <<>>))]

\* Stream.write (stdout and stderr are OutputStreams, which inherit it)
Stream_write(c, s, fmt) == _display_text(c, s, fmt)

\* mutant: an output stream keeps what it is given, as the input stream does
OutputStream_write_buffers(c, s, fmt) ==
    [Stream_write(c, s, fmt) EXCEPT !.buffer = @ \o s]

\* OutputStream.write: Stream.write, inherited
OutputStream_write(c, s, fmt) == Stream_write(c, s, fmt)

\* the writes of the running interpreter, each through its output stream
RECURSIVE interpreter_writes(_, _)
interpreter_writes(c, out) ==
    IF out = <<>> THEN c
    ELSE interpreter_writes(OutputStream_write(c, Head(out).s, Head(out).channel),
                            Tail(out))

\* self.interpreter(input_): the call is logged with the texts written to stdin
\* so far; the interpreter may write to stdout and stderr; it returns or raises.
interpreter(c, input_, resp) ==
    LET called == [c EXCEPT !.trace =
                        Append(@, [Effect("call", input_, "-", c.segments) EXCEPT
                                       !.history = c.editor_history,
                                       !.history_index = c.editor_index])]
        wrote == interpreter_writes(called, resp.out)
    IN [wrote EXCEPT !.ret = resp.more]

\* mutant: the prompt is switched to the continuation text and never back
_exec_keeps_prompt(c, input_, resp) ==
    LET r == interpreter(c, input_, resp)
    IN IF r.ret = "raise" THEN r
       ELSE [r EXCEPT !.prompt = IF r.ret = "True"
                                 THEN line_continuing_prompt_text
                                 ELSE @,
                      !.last_more = r.ret,
                      !.segments = IF r.ret = "False" THEN <<>> ELSE @]

_exec(c, input_, resp) ==
    LET r == interpreter(c, input_, resp)
    IN IF r.ret = "raise" THEN r
       ELSE [r EXCEPT !.prompt = IF r.ret = "True"
                                 THEN line_continuing_prompt_text
                                 ELSE prompt_text,
                      !.last_more = r.ret,
                      !.segments = IF r.ret = "False" THEN <<>> ELSE @]

\* mutant: the interpreter is given the text of this write, not the buffer
InputStream_write_newest_only(c, s, resp) ==
    LET shown == Stream_write(c, s, "stdin")
        stored == [shown EXCEPT !.buffer = @ \o s,
                                !.segments = Append(@, s)]
    IN IF endswith(s, NL)
       THEN LET r == _exec(stored, s, resp)
            IN IF r.ret = "raise" THEN r
               ELSE IF r.ret # "True" THEN [r EXCEPT !.buffer = <<>>]
               ELSE r
       ELSE stored

\* mutant: the buffer is never replaced by a fresh one
InputStream_write_never_clears(c, s, resp) ==
    LET shown == Stream_write(c, s, "stdin")
        stored == [shown EXCEPT !.buffer = @ \o s,
                                !.segments = Append(@, s)]
    IN IF endswith(s, NL)
       THEN _exec(stored, stored.buffer, resp)
       ELSE stored

\* mutant: the buffer is replaced by a fresh one after every evaluation
InputStream_write_always_clears(c, s, resp) ==
    LET shown == Stream_write(c, s, "stdin")
        stored == [shown EXCEPT !.buffer = @ \o s,
                                !.segments = Append(@, s)]
    IN IF endswith(s, NL)
       THEN LET r == _exec(stored, stored.buffer, resp)
            IN IF r.ret = "raise" THEN r ELSE [r EXCEPT !.buffer = <<>>]
       ELSE stored

\* mutant: an evaluation that raises leaves a fresh buffer behind
InputStream_write_clears_on_raise(c, s, resp) ==
    LET shown == Stream_write(c, s, "stdin")
        stored == [shown EXCEPT !.buffer = @ \o s,
                                !.segments = Append(@, s)]
    IN IF endswith(s, NL)
       THEN LET r == _exec(stored, stored.buffer, resp)
            IN IF r.ret # "True" THEN [r EXCEPT !.buffer = <<>>] ELSE r
       ELSE stored

InputStream_write(c, s, resp) ==
    LET shown == Stream_write(c, s, "stdin")
        stored == [shown EXCEPT !.buffer = @ \o s,
                                !.segments = Append(@, s)]
    IN IF endswith(s, NL)
       THEN LET r == _exec(stored, stored.buffer, resp)
            IN IF r.ret = "raise" THEN r
               ELSE IF r.ret # "True" THEN [r EXCEPT !.buffer = <<>>]
               ELSE r
       ELSE stored

\* mutant: the prompt is echoed after the line has been written and evaluated
_push_prompt_last(c, line, resp) ==
    LET r == InputStream_write(c, line \o <<NL>>, resp)
    IN IF r.ret = "raise" THEN r ELSE _display_text(r, r.prompt, "stdin")

_push(c, line, resp) ==
    InputStream_write(_display_text(c, c.prompt, "stdin"), line \o <<NL>>, resp)

----------------------------------------------------------------------------
(* QCmdLineEdit.  An editor value e is [history, history_index, text, caret,  *)
(* error], error being the exception the running handler has raised, or     *)
(* "none".                                                                  *)

Editor ==
    [history |-> history, history_index |-> history_index, text |-> text,
     caret |-> caret, error |-> "none"]

\* QLineEdit.setText: the text is replaced and the caret goes to its end
QLineEdit_setText(e, s) == [e EXCEPT !.text = s, !.caret = Len(s)]

\* QLineEdit.insert: s goes in at the caret, the caret after it
QLineEdit_insert(e, s) ==
    [e EXCEPT !.text = SubSeq(@, 1, e.caret) \o s \o SubSeq(@, e.caret + 1, Len(@)),
              !.caret = @ + Len(s)]

_update(e) == QLineEdit_setText(e, e.history[e.history_index + 1])

\* ' ' * n
Spaces(n) == [i \in 1..n |-> " "]

\* mutant: the tab is never expanded
_intercept_tab_literal(e, event_type, expand) ==
    [editor |-> IF event_type = "KeyPress" THEN QLineEdit_insert(e, <<"\t">>) ELSE e,
     handled |-> event_type = "KeyPress"]

\* _intercept_tab for a QKeyEvent of the Tab key: the editor after it and the
\* boolean it returns
_intercept_tab(e, event_type, expand) ==
    LET is_tab_press == event_type = "KeyPress"
        tab == IF expand = None THEN <<"\t">> ELSE Spaces(expand[1])
    IN [editor |-> IF is_tab_press THEN QLineEdit_insert(e, tab) ELSE e,
        handled |-> is_tab_press]

\* mutant: the cursor is not reset
_enter_line_record_keeps_index(e, t, maxlen) ==
    [e EXCEPT !.history = deque_appendleft([@ EXCEPT ![1] = t], <<>>, maxlen),
              !.text = <<>>, !.caret = 0]

\* mutant: the line is stored in the entry under the cursor
_enter_line_record_at_cursor(e, t, maxlen) ==
    IF Len(e.history) = 0
    THEN [e EXCEPT !.history_index = 0, !.error = "IndexError"]
    ELSE _update([e EXCEPT !.history_index = 0,
                           !.history = deque_appendleft(
                               [@ EXCEPT ![e.history_index + 1] = t], <<>>, maxlen)])

\* the body of "if text:" in _enter_line; history[0] = text raises IndexError
\* on an empty deque, after history_index has been set
_enter_line_record(e, t, maxlen) ==
    IF Len(e.history) = 0
    THEN [e EXCEPT !.history_index = 0, !.error = "IndexError"]
    ELSE _update([e EXCEPT !.history_index = 0,
                           !.history = deque_appendleft([@ EXCEPT ![1] = t], <<>>, maxlen)])

\* mutant: the line is recorded before line_entered is emitted
_enter_line_records_first(e, c, resp, swallow, maxlen) ==
    LET t == e.text
        record == t # <<>>
        e1 == IF record THEN _enter_line_record(e, t, maxlen) ELSE e
        recorded == record /\ e1.error = "none"
        c0 == [c EXCEPT !.trace = IF recorded
                                  THEN <<Effect("history", t, "-", <<>>),
                                         Effect("emit", t, "-", <<>>)>>
                                  ELSE <<Effect("emit", t, "-", <<>>)>>,
                        !.editor_history = e1.history,
                        !.editor_index = e1.history_index]
        c1 == _push(c0, t, resp)
        returned == c1.ret # "raise" \/ swallow
    IN [editor |-> e1, console |-> c1, returned |-> returned, recorded |-> recorded]

\* mutant: every line is recorded, the empty one too
_enter_line_records_empty(e, c, resp, swallow, maxlen) ==
    LET t == e.text
        c0 == [c EXCEPT !.trace = <<Effect("emit", t, "-", <<>>)>>]
        c1 == _push(c0, t, resp)
        returned == c1.ret # "raise" \/ swallow
        e1 == IF returned THEN _enter_line_record(e, t, maxlen) ELSE e
        recorded == returned /\ e1.error = "none"
        c2 == IF recorded
              THEN [c1 EXCEPT !.trace = Append(@, Effect("history", t, "-", <<>>))]
              ELSE c1
    IN [editor |-> e1, console |-> c2, returned |-> returned, recorded |-> recorded]

\* _enter_line, line_entered being connected to _push: the editor and the
\* console after it, whether emit returned, and whether the line was recorded
_enter_line(e, c, resp, swallow, maxlen) ==
    LET t == e.text
        c0 == [c EXCEPT !.trace = <<Effect("emit", t, "-", <<>>)>>]
        c1 == _push(c0, t, resp)
        returned == c1.ret # "raise" \/ swallow
        record == returned /\ t # <<>>
        e1 == IF record THEN _enter_line_record(e, t, maxlen) ELSE e
        recorded == record /\ e1.error = "none"
        c2 == IF recorded
              THEN [c1 EXCEPT !.trace = Append(@, Effect("history", t, "-", <<>>))]
              ELSE c1
    IN [editor |-> e1, console |-> c2, returned |-> returned, recorded |-> recorded]

\* mutant: the bound is len(history), one too far
_prev_unclamped(e) ==
    IF e.history_index < Len(e.history)
    THEN [e EXCEPT !.history_index = @ + 1,
                   !.text = IF e.history_index + 2 <= Len(e.history)
                            THEN e.history[e.history_index + 2] ELSE @,
                   !.caret = IF e.history_index + 2 <= Len(e.history)
                             THEN Len(e.history[e.history_index + 2]) ELSE @]
    ELSE e

\* mutant: Up keeps the field's text in the entry it leaves
_prev_saves_draft(e) ==
    IF e.history_index < Len(e.history) - 1
    THEN _update([e EXCEPT !.history[e.history_index + 1] = e.text,
                           !.history_index = @ + 1])
    ELSE e

_prev(e) ==
    IF e.history_index < Len(e.history) - 1
    THEN _update([e EXCEPT !.history_index = @ + 1])
    ELSE e

\* mutant: Down moves the cursor and leaves the field as it is
_next_keeps_text(e) ==
    IF e.history_index > 0
    THEN [e EXCEPT !.history_index = @ - 1]
    ELSE e

_next(e) ==
    IF e.history_index > 0
    THEN _update([e EXCEPT !.history_index = @ - 1])
    ELSE e

----------------------------------------------------------------------------
(* The session *)

\* op, arg: the event and its text; ret: what the interpreter call of the event
\* did ("none" without a call); done: the handler ran to its end; handled:
\* what QCmdLineEdit.event did with a Tab key event ("none" for other events);
\* the other fields are the state the event started in.
Event(op, arg, ret) ==
    [op |-> op, arg |-> arg, ret |-> ret, done |-> TRUE, handled |-> "none",
     index0 |-> history_index, text0 |-> text, caret0 |-> caret,
     history0 |-> history,
     prompt0 |-> prompt, buffer0 |-> buffer, display0 |-> display,
     last_more0 |-> last_more]

SetConsole(c) ==
    /\ buffer' = c.buffer
    /\ prompt' = c.prompt
    /\ display' = c.display
    /\ evicted' = c.evicted
    /\ trace' = c.trace
    /\ segments' = c.segments
    /\ last_more' = c.last_more

SetEditor(e) ==
    /\ history' = e.history
    /\ history_index' = e.history_index
    /\ text' = e.text
    /\ caret' = e.caret
    /\ error' = e.error

\* QCmdConsole(max_history=...) for a max_history of the given set; one that
\* deque rejects raises out of the constructor and leaves no session.
Construct(capacities, expands) ==
    /\ max_history \in capacities
    /\ ~deque_rejects(max_history)
    /\ expand_tab \in expands
    /\ error = "none"
    /\ history = new_history(max_history)
    /\ history_index = 0
    /\ text = <<>>
    /\ caret = 0
    /\ buffer = <<>>
    /\ prompt = prompt_text
    /\ \E init_text \in InitTexts :
           /\ display = new_display(init_text)
           /\ evicted = IF init_text = None THEN 0
                        ELSE Len(insertChars(<< <<>> >>, init_text[1]))
                             - Len(new_display(init_text))
    /\ trace = <<>>
    /\ ev = [op |-> "init", arg |-> <<>>, ret |-> "none", done |-> TRUE,
             handled |-> "none", index0 |-> 0, text0 |-> <<>>, caret0 |-> 0,
             history0 |-> history,
             prompt0 |-> prompt_text, buffer0 |-> <<>>, display0 |-> display,
             last_more0 |-> "none"]
    /\ segments = <<>>
    /\ last_more = "none"
    /\ submitted = <<>>
    /\ raised = FALSE
    /\ events = 0
    /\ tabs = 0
    /\ draft = None

Init == Construct(Capacities, {None})

\* The user types: the field's text becomes t, the caret at its end; the key
\* handler raises nothing.
Edit(t) ==
    /\ t # text
    /\ text' = t
    /\ caret' = Len(t)
    /\ trace' = <<>>
    /\ ev' = Event("edit", t, "none")
    /\ draft' = None
    /\ error' = "none"
    /\ UNCHANGED <<max_history, expand_tab, history, history_index, buffer, prompt,
                   display, evicted, segments, last_more, submitted, raised, events,
                   tabs>>

\* Return: _enter_line.  line_entered is connected to _push.  An exception that
\* the interpreter raises inside the slot either ends the handler there
\* (swallow = FALSE) or is reported by the exception hook, after which emit
\* returns and _enter_line goes on (swallow = TRUE).
EnterLine(resp, swallow) ==
    /\ events < MaxEvents
    /\ resp.more # "raise" => swallow
    /\ LET r == _enter_line(Editor, Console, resp, swallow, max_history)
       IN /\ SetConsole(r.console)
          /\ SetEditor(r.editor)
          /\ submitted' = IF r.recorded THEN <<text>> \o submitted ELSE submitted
          /\ ev' = [Event("enter", text, r.console.ret) EXCEPT
                        !.done = (r.returned /\ r.editor.error = "none")]
          /\ raised' = (raised \/ r.console.ret = "raise")
    /\ events' = events + 1
    /\ draft' = None
    /\ UNCHANGED <<max_history, expand_tab, tabs>>

\* Up
Prev ==
    /\ SetEditor(_prev(Editor))
    /\ trace' = <<>>
    /\ ev' = Event("prev", <<>>, "none")
    /\ draft' = IF history_index = 0 /\ _prev(Editor).history_index = 1
               THEN Some(text) ELSE draft
    /\ UNCHANGED <<max_history, expand_tab, buffer, prompt, display, evicted, segments,
                   last_more, submitted, raised, events, tabs>>

\* Down
Next_ ==
    /\ SetEditor(_next(Editor))
    /\ trace' = <<>>
    /\ ev' = Event("next", <<>>, "none")
    /\ UNCHANGED <<max_history, expand_tab, buffer, prompt, display, evicted, segments,
                   last_more, submitted, raised, events, tabs, draft>>

\* The host writes s to console.stdin.
StdinWrite(s, resp) ==
    /\ events < MaxEvents
    /\ ~endswith(s, NL) => resp = NoResponse
    /\ LET c1 == InputStream_write(Console, s, resp)
       IN /\ SetConsole(c1)
          /\ ev' = [Event("stdin", s, c1.ret) EXCEPT !.done = (c1.ret # "raise")]
          /\ raised' = (raised \/ c1.ret = "raise")
    /\ events' = events + 1
    /\ UNCHANGED <<max_history, expand_tab, history, history_index, text, caret,
                   submitted, error, tabs>>
    /\ draft' = None

\* The host writes s to console.stdout or console.stderr.
OutputWrite(channel, s) ==
    /\ events < MaxEvents
    /\ SetConsole(OutputStream_write(Console, s, channel))
    /\ ev' = Event(channel, s, "none")
    /\ events' = events + 1
    /\ UNCHANGED <<max_history, expand_tab, history, history_index, text, caret,
                   submitted, raised, error, tabs>>
    /\ draft' = None

Next ==
    \/ \E t \in Lines : Edit(t)
    \/ \E resp \in Responses, swallow \in BOOLEAN : EnterLine(resp, swallow)
    \/ Prev
    \/ Next_
    \/ \E s \in InWrites, resp \in Responses : StdinWrite(s, resp)
    \/ \E channel \in {"stdout", "stderr"}, s \in OutWrites : OutputWrite(channel, s)

Spec == Init /\ [][Next]_vars

\* A Tab key event reaches QCmdLineEdit.event: _intercept_tab takes a press;
\* anything else goes to QLineEdit.event.
TabKey(event_type) ==
    /\ tabs < MaxTabs
    /\ LET r == _intercept_tab(Editor, event_type, expand_tab)
       IN /\ SetEditor(r.editor)
          /\ trace' = IF r.handled
                      THEN <<Effect("insert", SubSeq(r.editor.text, caret + 1, r.editor.caret),
                                    "-", <<>>)>>
                      ELSE <<>>
          /\ ev' = [Event("tab", <<>>, "none") EXCEPT
                        !.arg = <<event_type>>,
                        !.handled = IF r.handled THEN "intercepted" ELSE "QLineEdit.event"]
    /\ tabs' = tabs + 1
    /\ draft' = None
    /\ UNCHANGED <<max_history, expand_tab, buffer, prompt, display, evicted, segments,
                   last_more, submitted, raised, events>>

\* Home, Left: the caret moves, nothing else does.
MoveCaret(key) ==
    /\ caret > 0
    /\ caret' = IF key = "Home" THEN 0 ELSE caret - 1
    /\ trace' = <<>>
    /\ ev' = Event("caret", <<key>>, "none")
    /\ UNCHANGED <<max_history, expand_tab, history, history_index, text, buffer,
                   prompt, display, evicted, segments, last_more, submitted, raised,
                   events, tabs>>
    /\ error' = "none"
    /\ draft' = None

\* The keyboard sessions of a field of any expand_tab, with the Tab key and
\* the caret keys, in front of an interpreter that completes every line.
InitKeys == Construct(Capacities, ExpandTabs)
NextKeys ==
    \/ \E t \in KeyLines : Edit(t)
    \/ EnterLine(Completes, TRUE)
    \/ Prev
    \/ Next_
    \/ \E event_type \in TabEvents : TabKey(event_type)
    \/ \E key \in CaretKeys : MoveCaret(key)
SpecKeys == InitKeys /\ [][NextKeys]_vars

\* The sessions of every max_history an embedding can pass, 0 and a negative
\* one included.
AnyCapacities == {Some(n) : n \in -1..MaxCapacity} \cup {None}
InitAnyCapacity == Construct(AnyCapacities, {None})
SpecAnyCapacity == InitAnyCapacity /\ [][Next]_vars

----------------------------------------------------------------------------
(* Reading the last handler's effects *)

IsCall(x) == x.k = "call"
IsDisplay(x) == x.k = "display"
Calls == SelectSeq(trace, IsCall)
Displayed == SelectSeq(trace, IsDisplay)

RECURSIVE FlattenTexts(_)
FlattenTexts(effects) ==
    IF effects = <<>> THEN <<>> ELSE Head(effects).s \o FlattenTexts(Tail(effects))

Take(s, n) == SubSeq(s, 1, IF n < Len(s) THEN n ELSE Len(s))
Continuation == prompt = line_continuing_prompt_text
Primary == prompt = prompt_text

----------------------------------------------------------------------------
(* C1. Every interpreter call receives the whole accumulation: its argument  *)
(* is the in-order concatenation of every text written to stdin since the    *)
(* last evaluation that returned False (or since the start); a submitted     *)
(* line contributes the line followed by '\n', without the prompt.           *)
C1_WholeAccumulation ==
    /\ \A i \in 1..Len(trace) :
          trace[i].k = "call" => trace[i].s = Flatten(trace[i].segs)
    /\ ev.op = "enter" =>
          /\ Len(Calls) = 1
          /\ Calls[1].segs # <<>>
          /\ Calls[1].segs[Len(Calls[1].segs)] = ev.arg \o <<NL>>
          /\ Calls[1].s = ev.buffer0 \o ev.arg \o <<NL>>

\* a second line evaluated together with a first one that returned True
C1_Witness ==
    /\ ev.op = "enter"
    /\ ev.last_more0 = "True"
    /\ ev.arg # <<>>
    /\ Len(Calls) = 1
    /\ Len(Calls[1].segs) = 2
    /\ Len(Calls[1].s) > Len(ev.arg) + 1

(* C2. Between events the prompt shows the continuation text iff the most    *)
(* recent interpreter call that returned, returned True; it shows the        *)
(* primary text before any evaluation and after one that returned False.     *)
C2_PromptMode ==
    /\ Continuation <=> last_more = "True"
    /\ Primary <=> last_more \in {"none", "False"}

\* back to the primary prompt after a continuation
C2_Witness ==
    /\ ev.prompt0 = line_continuing_prompt_text
    /\ ev.ret = "False"
    /\ last_more = "False"
    /\ Primary

(* C3. A submitted line is echoed as the prompt showing at submit time, then *)
(* the line and '\n', both inserted in the display before the interpreter is *)
(* called, hence before anything the interpreter writes for the line to      *)
(* stdout or stderr.                                                         *)
C3_EchoBeforeEvaluation ==
    ev.op = "enter" =>
        /\ Len(trace) >= 4
        /\ trace[1] = Effect("emit", ev.arg, "-", <<>>)
        /\ trace[2] = Effect("display", ev.prompt0, "stdin", <<>>)
        /\ trace[3] = Effect("display", ev.arg \o <<NL>>, "stdin", <<>>)
        /\ trace[4].k = "call"
        /\ \A i \in 5..Len(trace) :
              trace[i].k = "display" => trace[i].fmt \in {"stdout", "stderr"}
        /\ display = insertPlainText(ev.display0,
                        ev.prompt0 \o ev.arg \o <<NL>> \o FlattenTexts(SubSeq(Displayed, 3, Len(Displayed))))

\* a line submitted at the continuation prompt, whose evaluation writes output
\* and brings the primary prompt back
C3_Witness ==
    /\ ev.op = "enter"
    /\ ev.prompt0 = line_continuing_prompt_text
    /\ Primary
    /\ Len(Displayed) = 4
    /\ Displayed[3] = Effect("display", <<"r">>, "stdout", <<>>)
    /\ Displayed[4] = Effect("display", <<NL>>, "stdout", <<>>)

(* C4. A write on stdin calls the interpreter exactly once when the text     *)
(* ends with '\n', and not at all otherwise (the empty text included).       *)
C4_EvaluateIffTerminated ==
    ev.op = "stdin" =>
        Len(Calls) = IF ev.arg # <<>> /\ ev.arg[Len(ev.arg)] = NL THEN 1 ELSE 0

\* a write that holds a '\n' but does not end with it
C4_Witness ==
    /\ ev.op = "stdin"
    /\ ev.arg = <<NL, "x">>
    /\ Calls = <<>>

(* C5, as stated. The accumulation buffer is non-empty only while the        *)
(* prompt mode is Continuation (in a session whose interpreter has not       *)
(* raised: the claim is about evaluations that return).                      *)
C5_NonEmptyOnlyInContinuation ==
    ~raised => (buffer # <<>> => Continuation)

(* C5, amended. The buffer is empty right after every evaluation that        *)
(* returned False; it is non-empty only while the prompt mode is             *)
(* Continuation or while text written to stdin since the last evaluation     *)
(* that returned is waiting (an unterminated write, or one whose evaluation  *)
(* raised), and then the buffer is exactly that text.                        *)
C5_BufferLifecycle ==
    /\ ev.ret = "False" => buffer = <<>>
    /\ buffer # <<>> =>
          \/ Continuation
          \/ /\ segments # <<>>
             /\ buffer = Flatten(segments)
             /\ ev.op \in {"enter", "stdin"} =>
                   (ev.ret = "raise" \/ ~endswith(ev.arg \o (IF ev.op = "enter" THEN <<NL>> ELSE <<>>), NL))

\* an unterminated write waits in the buffer at the primary prompt, after an
\* evaluation that returned False
C5_Witness ==
    /\ buffer # <<>>
    /\ Primary
    /\ last_more = "False"
    /\ ev.op = "stdin"
    /\ ev.ret = "none"

(* C6. With an interpreter that returns True for "if True:" and False for    *)
(* the two lines, submitting "if True:" then "    pass" makes one call with  *)
(* the full two-line text, before the buffer is cleared; the prompt shows    *)
(* the continuation text after the first line, the primary text after the    *)
(* second.                                                                   *)
C6_Scenario ==
    /\ events = 2
    /\ submitted = <<Pass, IfTrue>>
    /\ ev.op = "enter"
    /\ ev.last_more0 = "True"
    /\ ev.ret = "False"

C6_ContinuationAccumulation ==
    C6_Scenario =>
        /\ ev.prompt0 = line_continuing_prompt_text
        /\ ev.buffer0 = IfTrue \o <<NL>>
        /\ Len(Calls) = 1
        /\ Calls[1].s = IfTrue \o <<NL>> \o Pass \o <<NL>>
        /\ buffer = <<>>
        /\ Primary

C6_Witness ==
    /\ C6_Scenario
    /\ ev.arg = Pass
    /\ Len(Calls) = 1

(* C7. With a finite capacity C the history holds at most C+1 entries, the   *)
(* sentinel included, and after the submits it is the sentinel followed by   *)
(* the C most recent submitted lines, most recent first.                     *)
C7_HistoryBound ==
    max_history # None =>
        /\ Len(history) <= max_history[1] + 1
        /\ history = << <<>> >> \o Take(submitted, max_history[1])

(* C8. The history always holds at least one entry, entry 0 is the empty     *)
(* sentinel, a finite capacity bounds the number of entries, and the oldest  *)
(* entries are the ones evicted.                                             *)
C8_SentinelAndCapacity ==
    /\ Len(history) >= 1
    /\ history[1] = <<>>
    /\ max_history # None => Len(history) <= max_history[1]
    /\ Tail(history) = Take(submitted, Len(history) - 1)

\* a submit has evicted the oldest line of a full history
C8_Witness ==
    /\ max_history # None
    /\ Len(history) = max_history[1]
    /\ Len(history) = 2
    /\ Len(submitted) = 2
    /\ submitted[1] # submitted[2]

(* C9. 0 <= cursor <= len(entries)-1 always; Up at the oldest entry and Down *)
(* at entry 0 leave the cursor, and the entry under it, as they were.        *)
C9_CursorInRange ==
    /\ 0 <= history_index
    /\ history_index <= Len(history) - 1
    /\ (ev.op = "prev" /\ ev.index0 = Len(ev.history0) - 1) =>
          /\ history_index = ev.index0
          /\ history[history_index + 1] = ev.history0[ev.index0 + 1]
    /\ (ev.op = "next" /\ ev.index0 = 0) =>
          /\ history_index = 0
          /\ history[1] = ev.history0[1]

\* Up pressed with the cursor on the oldest of two entries
C9_Witness ==
    /\ ev.op = "prev"
    /\ ev.index0 = 1
    /\ Len(ev.history0) = 2
    /\ history_index = 1

(* C10, as stated. After every completed submit the cursor is 0 and the      *)
(* field is empty, whatever was submitted and wherever the cursor was.       *)
C10_SubmitResets ==
    (ev.op = "enter" /\ ev.done) => (history_index = 0 /\ text = <<>>)

(* C10, amended. After every completed submit the field is empty; the cursor *)
(* is 0 when the submitted text was not empty, and where it was when the     *)
(* submitted text was empty.                                                 *)
C10_SubmitResetsUnlessEmpty ==
    (ev.op = "enter" /\ ev.done) =>
        /\ text = <<>>
        /\ history_index = IF ev.arg # <<>> THEN 0 ELSE ev.index0

\* a recalled line submitted again from cursor 1
C10_Witness ==
    /\ ev.op = "enter"
    /\ ev.done
    /\ ev.arg # <<>>
    /\ ev.index0 = 1
    /\ history_index = 0

(* C11, as stated. After every Up or Down the field's text is                *)
(* entries[cursor], also when the cursor was already at the oldest entry or  *)
(* at 0 and the user has edited the field.                                   *)
C11_NavigateShowsEntry ==
    ev.op \in {"prev", "next"} => text = history[history_index + 1]

(* C11, amended. After an Up or Down that moves the cursor the field's text  *)
(* is entries[cursor]; Up at the oldest entry and Down at 0 leave the cursor *)
(* and the field's text, edited or not, as they were.                        *)
C11_NavigateShowsEntryUnlessClamped ==
    ev.op \in {"prev", "next"} =>
        IF history_index # ev.index0
        THEN /\ text = history[history_index + 1]
             /\ history_index = ev.index0 + (IF ev.op = "prev" THEN 1 ELSE -1)
        ELSE /\ text = ev.text0
             /\ ev.index0 = IF ev.op = "prev" THEN Len(history) - 1 ELSE 0

\* Down from entry 1, on an edited field, brings the empty sentinel back
C11_Witness ==
    /\ ev.op = "next"
    /\ ev.index0 = 1
    /\ ev.text0 # ev.history0[2]
    /\ ev.text0 # <<>>
    /\ history_index = 0
    /\ text = <<>>

(* C12. A non-positive max_history is rejected at construction, so that no   *)
(* session whose history cannot hold the sentinel is reachable and no later  *)
(* submit fails because of the capacity.                                     *)
C12_InvalidBoundRejected ==
    /\ max_history # None => max_history[1] > 0
    /\ Len(history) >= 1
    /\ error # "IndexError"

(* C13. A Tab key press is always intercepted (QCmdLineEdit.event reports it *)
(* handled without passing it to QLineEdit.event, where focus traversal      *)
(* lives) and inserts at the caret expand_tab spaces when expand_tab is an   *)
(* integer, one tab character when it is None; the text on both sides of the *)
(* caret, the history entries and the cursor stay as they were.              *)
C13_TabInserted ==
    (ev.op = "tab" /\ ev.arg = <<"KeyPress">>) =>
        LET tab == IF expand_tab = None THEN <<"\t">> ELSE Spaces(expand_tab[1])
        IN /\ ev.handled = "intercepted"
           /\ expand_tab # None => Len(text) = Len(ev.text0) + expand_tab[1]
           /\ expand_tab = None => Len(text) = Len(ev.text0) + 1
           /\ text = SubSeq(ev.text0, 1, ev.caret0) \o tab
                      \o SubSeq(ev.text0, ev.caret0 + 1, Len(ev.text0))
           /\ caret = ev.caret0 + Len(tab)
           /\ history = ev.history0
           /\ history_index = ev.index0

\* Tab with the caret inside a recalled entry, expand_tab = 4: four spaces go
\* in between its characters
C13_Witness ==
    /\ ev.op = "tab"
    /\ ev.arg = <<"KeyPress">>
    /\ expand_tab = Some(4)
    /\ ev.index0 = 1
    /\ ev.caret0 > 0
    /\ ev.caret0 < Len(ev.text0)
    /\ SubSeq(text, ev.caret0 + 1, ev.caret0 + 4) = <<" ", " ", " ", " ">>
    /\ text[ev.caret0 + 5] # " "

\* the last n blocks of a document
LastBlocks(doc, n) == SubSeq(doc, IF Len(doc) > n THEN Len(doc) - n + 1 ELSE 1, Len(doc))

(* C14, as stated. Once max_lines + 1 newline-terminated lines have been     *)
(* written to the display (max_lines + 2 blocks, the last one empty), the    *)
(* display shows max_lines of them.                                          *)
C14_RetainsMostRecentLines ==
    (evicted + Len(display) = max_lines + 2 /\ display[Len(display)] = <<>>) =>
        Len(display) - 1 = max_lines

(* C14, amended. The display holds the most recent max_lines blocks of what  *)
(* was written, the oldest leaving first; the text after the last newline,   *)
(* empty or not, is one of them, so after max_lines + 1 newline-terminated   *)
(* lines the display shows the most recent max_lines - 1 lines and the empty *)
(* block that follows them.                                                  *)
C14_RetainsMostRecentBlocks ==
    /\ Len(display) <= max_lines
    /\ evicted > 0 => Len(display) = max_lines
    /\ display = LastBlocks(insertChars(ev.display0, FlattenTexts(Displayed)), max_lines)
    /\ (evicted + Len(display) = max_lines + 2 /\ display[Len(display)] = <<>>) =>
           /\ evicted = 2
           /\ Len(display) = max_lines
           /\ display[max_lines] = <<>>

\* max_lines + 1 lines written, the first two of them gone from the display
C14_Witness ==
    /\ evicted = 2
    /\ Len(display) = max_lines
    /\ display[max_lines] = <<>>
    /\ \A i \in 1..(max_lines - 1) : display[i] # <<>>
    /\ Displayed # <<>>
    /\ Len(ev.display0) = max_lines

(* C15. In every submit the line_entered emission comes first and all that   *)
(* it causes (the echo of the prompt and of the line, the interpreter call,  *)
(* the interpreter's output) is done before the history or the cursor is     *)
(* modified: the modification is the handler's last effect, and every        *)
(* interpreter call of the submit finds the history and the cursor as they   *)
(* were when Return was pressed, without the submitted line.                 *)
C15_EmitBeforeHistory ==
    ev.op = "enter" =>
        /\ Len(trace) >= 3
        /\ trace[1].k = "emit"
        /\ trace[1].s = ev.arg
        /\ \A i \in 1..Len(trace) :
              /\ trace[i].k = "history" => i = Len(trace)
              /\ trace[i].k = "call" =>
                    /\ trace[i].history = ev.history0
                    /\ trace[i].history_index = ev.index0
        /\ (history # ev.history0 \/ history_index # ev.index0) =>
              trace[Len(trace)].k = "history"

\* a recalled line is submitted: the interpreter is called with the cursor
\* still on the recalled entry, and the line is recorded after the call
C15_Witness ==
    /\ ev.op = "enter"
    /\ ev.index0 = 1
    /\ Len(trace) = 5
    /\ trace[4].k = "call"
    /\ trace[4].history_index = 1
    /\ trace[5].k = "history"
    /\ history[2] = ev.arg
    /\ history # ev.history0
    /\ history_index = 0

(* C16. A write to stdout or stderr, whenever it happens, inserts its text   *)
(* in the display and does nothing else: the interpreter is not called, and  *)
(* the input buffer, the prompt, the history, the cursor and the field's     *)
(* text are as before the write.                                             *)
C16_OutputOnlyDisplays ==
    ev.op \in {"stdout", "stderr"} =>
        /\ trace = <<Effect("display", ev.arg, ev.op, <<>>)>>
        /\ display = insertPlainText(ev.display0, ev.arg)
        /\ buffer = ev.buffer0
        /\ prompt = ev.prompt0
        /\ last_more = ev.last_more0
        /\ history = ev.history0
        /\ history_index = ev.index0
        /\ text = ev.text0

\* stderr is written between the lines of a continuation
C16_Witness ==
    /\ ev.op = "stderr"
    /\ ev.arg # <<>>
    /\ Continuation
    /\ buffer = IfTrue \o <<NL>>
    /\ Len(history) = 2

\* the last event is the submit, run to its end, of a non-empty text that was
\* recalled from an entry and edited
RecalledAndEdited ==
    /\ ev.op = "enter"
    /\ ev.done
    /\ ev.arg # <<>>
    /\ ev.index0 >= 1
    /\ ev.text0 # ev.history0[ev.index0 + 1]

(* C17, as stated. Up, Down and typing leave the history as it was; only a   *)
(* submit changes it; and the submit of a recalled and edited text (taken    *)
(* to be non-empty, and the submit to run to its end) adds the text as the   *)
(* most recent entry and leaves the entry it was recalled from in the        *)
(* history, unaltered and one place older.                                   *)
C17_NavigationKeepsHistory ==
    /\ ev.op \in {"prev", "next", "edit"} => history = ev.history0
    /\ history # ev.history0 => ev.op = "enter"
    /\ RecalledAndEdited =>
          /\ Len(history) >= ev.index0 + 2
          /\ history[2] = ev.text0
          /\ history[ev.index0 + 2] = ev.history0[ev.index0 + 1]

(* C17, amended. Up, Down and typing leave the history as it was; only a     *)
(* submit changes it; and the submit, run to its end, of a non-empty         *)
(* recalled and edited text adds the text as the most recent entry and       *)
(* alters no other entry: each moves one place older, the entry it was       *)
(* recalled from included, and only the oldest entry of a full history       *)
(* leaves, which may be the entry the text was recalled from.                *)
C17_NavigationKeepsHistoryUnlessEvicted ==
    /\ ev.op \in {"prev", "next", "edit"} => history = ev.history0
    /\ history # ev.history0 => ev.op = "enter"
    /\ RecalledAndEdited =>
          /\ history[1] = <<>>
          /\ history[2] = ev.text0
          /\ Len(history) = IF max_history # None /\ Len(ev.history0) = max_history[1]
                            THEN Len(ev.history0)
                            ELSE Len(ev.history0) + 1
          /\ \A i \in 3..Len(history) : history[i] = ev.history0[i - 1]

\* a recalled line, edited, is submitted; the line it came from stays
C17_Witness ==
    /\ RecalledAndEdited
    /\ ev.index0 = 1
    /\ Len(history) = 3
    /\ history[2] = ev.text0
    /\ history[3] = ev.history0[2]
    /\ history[3] # history[2]

\* what the last event wrote to stdin: the text, or the submitted line and '\n'
WrittenToStdin == IF ev.op = "enter" THEN ev.arg \o <<NL>> ELSE ev.arg

(* C18. When the interpreter raises in an evaluation that a write to stdin   *)
(* started, the exception leaves the write (a direct write does not run to   *)
(* its end) and the state is the one just before the call: the text has been *)
(* displayed and appended to the buffer, the failed call was given that      *)
(* buffer, the buffer is not cleared and the prompt is not changed; the      *)
(* display has gained only what the interpreter itself wrote.  Every         *)
(* evaluation's argument begins with the buffer its write found, so the      *)
(* next evaluation's argument contains the text of the failed call.          *)
C18_RaiseKeepsPending ==
    /\ (ev.op \in {"stdin", "enter"} /\ ev.ret = "raise") =>
          /\ ev.op = "stdin" => ~ev.done
          /\ buffer = ev.buffer0 \o WrittenToStdin
          /\ LET k == IF ev.op = "enter" THEN 4 ELSE 2
             IN /\ Len(trace) >= k
                /\ trace[k - 1] = Effect("display", WrittenToStdin, "stdin", <<>>)
                /\ trace[k] = Calls[1]
                /\ \A i \in (k + 1)..Len(trace) :
                      trace[i].k = "display" => trace[i].fmt \in {"stdout", "stderr"}
                /\ display = insertPlainText(ev.display0,
                                 (IF ev.op = "enter" THEN ev.prompt0 ELSE <<>>)
                                 \o WrittenToStdin
                                 \o FlattenTexts(SelectSeq(SubSeq(trace, k + 1, Len(trace)),
                                                           IsDisplay)))
          /\ Len(Calls) = 1
          /\ Calls[1].s = buffer
          /\ prompt = ev.prompt0
          /\ last_more = ev.last_more0
    /\ (ev.op \in {"stdin", "enter"} /\ Calls # <<>>) =>
          Calls[1].s = ev.buffer0 \o WrittenToStdin

\* the evaluation after one that raised at the primary prompt: its argument
\* is the text of the failed call followed by the new text
C18_Witness ==
    /\ ev.op = "stdin"
    /\ ev.ret = "False"
    /\ raised
    /\ ev.prompt0 = prompt_text
    /\ ev.buffer0 = <<"x", NL>>
    /\ Calls[1].s = <<"x", NL, "x", NL>>
    /\ buffer = <<>>

(* C19. Submitting an empty line records nothing: the history entries, the   *)
(* cursor and the field are as they were, while line_entered('') is emitted, *)
(* the prompt and a bare '\n' are echoed, and the interpreter is called with *)
(* the accumulated text, the '\n' included.                                  *)
C19_EmptySubmitSkipped ==
    (ev.op = "enter" /\ ev.arg = <<>>) =>
        /\ history = ev.history0
        /\ history_index = ev.index0
        /\ text = <<>>
        /\ Len(trace) >= 4
        /\ trace[1] = Effect("emit", <<>>, "-", <<>>)
        /\ trace[2] = Effect("display", ev.prompt0, "stdin", <<>>)
        /\ trace[3] = Effect("display", <<NL>>, "stdin", <<>>)
        /\ trace[4].k = "call"
        /\ trace[4].s = ev.buffer0 \o <<NL>>
        /\ \A i \in 1..Len(trace) : trace[i].k # "history"

\* an empty line ends a continuation, the cursor resting on a recalled entry
C19_Witness ==
    /\ ev.op = "enter"
    /\ ev.arg = <<>>
    /\ ev.index0 = 1
    /\ history_index = 1
    /\ Len(history) = 2
    /\ ev.buffer0 = IfTrue \o <<NL>>
    /\ trace[4].s = IfTrue \o <<NL, NL>>
    /\ ev.ret = "False"
    /\ Primary

(* C20. A text typed in the field and not submitted is not stored: with at   *)
(* least one recorded line, Up from cursor 0 followed by Down back to cursor *)
(* 0, the field not edited in between, shows the empty sentinel and not the  *)
(* draft; the history is as it was, its newest entry still empty.            *)
C20_DraftNotStored ==
    (draft # None /\ ev.op = "next" /\ ev.index0 = 1) =>
        /\ history_index = 0
        /\ text = <<>>
        /\ history[1] = <<>>
        /\ history = ev.history0
        /\ Len(history) >= 2

\* a draft that is no entry of the history is gone after Up and Down
C20_Witness ==
    /\ draft # None
    /\ draft[1] # <<>>
    /\ \A i \in 1..Len(history) : history[i] # draft[1]
    /\ ev.op = "next"
    /\ ev.index0 = 1
    /\ history_index = 0
    /\ text = <<>>
====
